---- MODULE Spec2Model ----
(***************************************************************************)
(* A model of src/request/request.js: the Request client, its fluent       *)
(* configuration setters and the send pipeline around one fetch call.      *)
(*                                                                         *)
(* JavaScript values are records [t |-> tag, v |-> payload].  A string is  *)
(* a sequence of atoms (single characters for urls and data values, MIME   *)
(* tokens for header values); a property name is one atom.  A mapping (a   *)
(* plain object) is a sequence of <<name, value>> entries in property enumeration   *)
(* order.  Header mappings live on a heap and are held by reference.       *)
(***************************************************************************)
EXTENDS Integers, Sequences, FiniteSets, TLC

VARIABLES heap, clients, held, createdBy, lastOp, budget, call

vars == <<heap, clients, held, createdBy, lastOp, budget, call>>

(***************************************************************************)
(* Bounds of the model.                                                    *)
(***************************************************************************)
MaxClients == 2
MaxObjs == 3
MaxOps == 4

(***************************************************************************)
(* JavaScript values.                                                      *)
(***************************************************************************)
Val(t, v) == [t |-> t, v |-> v]
Undefined == Val("undefined", <<>>)
Null == Val("null", <<>>)
False == Val("bool", <<"false">>)
True == Val("bool", <<"true">>)
Zero == Val("num", <<"0">>)
Str(s) == Val("str", s)
Map(f) == Val("map", f)
FormData(f) == Val("formdata", f)
Fn(name) == Val("function", <<name>>)
Err(kind) == Val("error", <<kind>>)

\* ToBoolean
Truthy(x) ==
  CASE x.t \in {"undefined", "null"} -> FALSE
    [] x.t = "bool" -> x = True
    [] x.t = "num" -> x # Zero
    [] x.t = "str" -> x.v # <<>>
    [] OTHER -> TRUE

\* typeof x === 'object'
TypeofObject(x) == x.t \in {"null", "map", "formdata"}

\* utils.isObject and utils.isFunction, as the callers rely on them
isObject(x) == x.t = "map"
isFunction(x) == x.t = "function"

(***************************************************************************)
(* Plain objects as ordered mappings.                                      *)
(***************************************************************************)
\* one property: its name and its value
Entry(k, v) == <<k, v>>
KeyOf(e) == e[1]
ValueOf(e) == e[2]

Keys(m) == [i \in 1..Len(m) |-> KeyOf(m[i])]
HasKey(m, k) == \E i \in 1..Len(m) : KeyOf(m[i]) = k
Get(m, k) ==
  IF HasKey(m, k) THEN ValueOf(m[CHOOSE i \in 1..Len(m) : KeyOf(m[i]) = k]) ELSE Undefined
\* obj[k] = v: an existing key keeps its place, a new key is appended
Put(m, k, v) ==
  IF HasKey(m, k) THEN [i \in 1..Len(m) |-> IF KeyOf(m[i]) = k THEN Entry(k, v) ELSE m[i]]
  ELSE Append(m, Entry(k, v))
\* delete obj[k]
Delete(m, k) == SelectSeq(m, LAMBDA e : KeyOf(e) # k)

RECURSIVE Spread(_, _)
\* {...a, ...b}
Spread(a, b) ==
  IF b = <<>> THEN a ELSE Spread(Put(a, KeyOf(Head(b)), ValueOf(Head(b))), Tail(b))

(***************************************************************************)
(* Strings.                                                                *)
(***************************************************************************)
\* s.indexOf(t) !== -1
Contains(s, t) == \E i \in 1..(Len(s) - Len(t) + 1) : SubSeq(s, i, i + Len(t) - 1) = t

\* String.prototype.toLowerCase on the header names of the model
toLowerCase(k) ==
  CASE k = "Accept" -> "accept"
    [] k = "ACCEPT" -> "accept"
    [] k = "Content-Type" -> "content-type"
    [] OTHER -> k

\* encodeURIComponent of one character
EncodeChar(c) ==
  CASE c = " " -> <<"%", "2", "0">>
    [] c = "&" -> <<"%", "2", "6">>
    [] c = "%" -> <<"%", "2", "5">>
    [] c = "?" -> <<"%", "3", "F">>
    [] c = "=" -> <<"%", "3", "D">>
    [] c = "/" -> <<"%", "2", "F">>
    [] c = "+" -> <<"%", "2", "B">>
    [] OTHER -> <<c>>

RECURSIVE encodeURIComponent(_)
encodeURIComponent(s) ==
  IF s = <<>> THEN <<>> ELSE EncodeChar(Head(s)) \o encodeURIComponent(Tail(s))

RECURSIVE ReplacePct20(_)
\* s.replace(/%20/g, '+')
ReplacePct20(s) ==
  IF s = <<>> THEN <<>>
  ELSE IF Len(s) >= 3 /\ SubSeq(s, 1, 3) = <<"%", "2", "0">>
       THEN <<"+">> \o ReplacePct20(SubSeq(s, 4, Len(s)))
       ELSE <<Head(s)>> \o ReplacePct20(Tail(s))

RECURSIVE Join(_, _)
\* arr.join(sep)
Join(arr, sep) ==
  IF arr = <<>> THEN <<>>
  ELSE IF Len(arr) = 1 THEN arr[1]
  ELSE arr[1] \o sep \o Join(Tail(arr), sep)

\* String(x), for the values a data mapping holds
StringOf(x) == IF x.t = "str" THEN x.v ELSE <<x.t>>

Digit(i) == <<"0", "1", "2", "3", "4", "5", "6", "7", "8", "9">>[i + 1]

\* the own enumerable properties of obj as a mapping: the entries of a plain
\* object, the indexed characters of a string, nothing for a number, a boolean
\* or a FormData (whose fields are internal)
OwnProps(obj) ==
  CASE obj.t = "map" -> obj.v
    [] obj.t = "str" -> [i \in 1..Len(obj.v) |-> Entry(Digit(i - 1), Str(<<obj.v[i]>>))]
    [] OTHER -> <<>>

\* Object.keys(null) and Object.keys(undefined) throw a TypeError
paramThrows(obj) == obj.t \in {"undefined", "null"}

param(obj) ==
  LET props == OwnProps(obj)
      arr == [i \in 1..Len(props) |->
                <<KeyOf(props[i])>> \o <<"=">> \o encodeURIComponent(StringOf(ValueOf(props[i])))]
  IN ReplacePct20(Join(arr, <<"&">>))

(***************************************************************************)
(* The configuration of a client: this._options, a plain object whose      *)
(* headers property refers to a header mapping on the heap.                *)
(***************************************************************************)
CT_JSON == <<"application/json">>
CT_FORM == <<"application/x-www-form-urlencoded", ";charset=UTF-8">>
CT_MULTIPART == <<"multipart/form-data">>
CT_TEXT == <<"text/plain">>

REQUEST_METHODS == <<"GET", "POST", "HEAD", "DELETE", "OPTIONS", "PUT", "PATCH">>

Ref(id) == Val("ref", <<id>>)

\* the headers literal of defaultOptions, a new object for every instance
defaultHeaders == <<Entry("content-type", Str(CT_JSON))>>

defaultOptions(h) ==
  << Entry("method", Str(<<"POST">>)),
     Entry("mode", Str(<<"cors">>)),
     Entry("cache", Str(<<"no-cache">>)),
     Entry("credentials", Str(<<"include">>)),
     Entry("headers", h),
     Entry("responseType", Str(<<"json">>)),
     Entry("prefix", Str(<<>>)),
     Entry("beforeRequest", Null),
     Entry("afterResponse", Null) >>

World == [heap |-> heap, clients |-> clients]

\* the header mapping a client's options refer to
HeadersId(options) == Get(options, "headers").v[1]
HeadersOf(w, c) == w.heap[HeadersId(w.clients[c])]

RECURSIVE normalizeFrom(_, _)
\* for (let h in headers) over the keys present when the loop starts: a key
\* deleted before its turn is skipped, a key added by the loop is lower-case
normalizeFrom(m, ks) ==
  IF ks = <<>> THEN m
  ELSE LET h == Head(ks)
       IN IF HasKey(m, h) /\ h # toLowerCase(h)
          THEN normalizeFrom(Delete(Put(m, toLowerCase(h), Get(m, h)), h), Tail(ks))
          ELSE normalizeFrom(m, Tail(ks))

normalize(m) == normalizeFrom(m, Keys(m))

\* new Request(opts): opts is a plain object of options; its headers, when
\* given, is a reference to the caller's mapping, which the instance keeps
\* and normalizes in place.  The default headers object is put on the heap
\* only when the instance keeps it.
constructor(w, opts) ==
  LET own == ~HasKey(opts, "headers")
      heap1 == IF own THEN Append(w.heap, defaultHeaders) ELSE w.heap
      options == Spread(defaultOptions(Ref(Len(w.heap) + 1)), opts)
      hid == HeadersId(options)
  IN [heap |-> [heap1 EXCEPT ![hid] = normalize(@)],
      clients |-> Append(w.clients, options),
      threw |-> FALSE]

create(w, opts) == constructor(w, opts)

\* the property name a key is used as
PropName(key) ==
  IF key.t = "str" /\ Len(key.v) = 1 THEN key.v[1]
  ELSE IF key = Str(<<>>) THEN ""
  ELSE key.t

SetOptions(w, c, options) ==
  [heap |-> w.heap, clients |-> [w.clients EXCEPT ![c] = options], threw |-> FALSE]

SetHeaders(w, c, m) ==
  [heap |-> [w.heap EXCEPT ![HeadersId(w.clients[c])] = m], clients |-> w.clients,
   threw |-> FALSE]

Thrown(w) == [heap |-> w.heap, clients |-> w.clients, threw |-> TRUE]

config(w, c, key, value) ==
  IF TypeofObject(key)
  THEN SetOptions(w, c, Spread(w.clients[c], OwnProps(key)))
  ELSE SetOptions(w, c, Put(w.clients[c], PropName(key), value))

prefix(w, c, p) ==
  IF Truthy(p) /\ p.t = "str"
  THEN SetOptions(w, c, Put(w.clients[c], "prefix", p))
  ELSE SetOptions(w, c, w.clients[c])

beforeRequest(w, c, cb) ==
  IF Truthy(cb) /\ cb.t = "function"
  THEN SetOptions(w, c, Put(w.clients[c], "beforeRequest", cb))
  ELSE SetOptions(w, c, w.clients[c])

afterResponse(w, c, cb) ==
  IF Truthy(cb) /\ cb.t = "function"
  THEN SetOptions(w, c, Put(w.clients[c], "afterResponse", cb))
  ELSE SetOptions(w, c, w.clients[c])

RECURSIVE mergeLower(_, _)
\* for (let k in key) headers[k.toLowerCase()] = key[k]
mergeLower(m, es) ==
  IF es = <<>> THEN m
  ELSE mergeLower(Put(m, toLowerCase(KeyOf(Head(es))), ValueOf(Head(es))), Tail(es))

headers(w, c, key, value) ==
  IF isObject(key) THEN SetHeaders(w, c, mergeLower(HeadersOf(w, c), key.v))
  ELSE IF isFunction(key) THEN SetHeaders(w, c, Put(HeadersOf(w, c), "__headersFun__", key))
  ELSE IF key.t # "str" THEN Thrown(w)
  ELSE SetHeaders(w, c, Put(HeadersOf(w, c), toLowerCase(PropName(key)), value))

contentType(w, c, type) ==
  LET canonical ==
        CASE type = Str(<<"json">>) -> Str(CT_JSON)
          [] type \in {Str(<<"form">>), Str(<<"urlencoded">>)} -> Str(CT_FORM)
          [] type = Str(<<"multipart">>) -> Str(CT_MULTIPART)
          [] OTHER -> type
  IN SetHeaders(w, c, Put(HeadersOf(w, c), "content-type", canonical))

(***************************************************************************)
(* send: the synchronous part, from the url check to the fetch call.       *)
(***************************************************************************)
Absent == Val("absent", <<>>)
NoResult == [kind |-> "none", ret |-> Undefined]
Returns(v) == [kind |-> "return", ret |-> v]
Throws(e) == [kind |-> "throw", ret |-> Err(e)]

\* String.prototype.toUpperCase on the method names of the model
toUpperCase(m) ==
  CASE m = <<"get">> -> <<"GET">>
    [] m = <<"post">> -> <<"POST">>
    [] OTHER -> m

\* JSON.stringify: undefined for undefined and functions, a JSON text otherwise
JSONstringify(b) == IF b.t \in {"undefined", "function"} THEN Undefined ELSE Val("json", <<b>>)

_data(data, ctype) ==
  IF Contains(ctype, CT_MULTIPART)
  THEN IF data.t = "formdata" THEN data
       ELSE IF TypeofObject(data) THEN FormData(OwnProps(data))
       ELSE FormData(<<>>)
  ELSE LET body == Null
       IN IF Truthy(body) /\ TypeofObject(data) THEN Map(Spread(OwnProps(body), OwnProps(data)))
          ELSE data

\* the mapping a headers option denotes: the stored reference or a literal
HeadersValue(w, h) == IF h.t = "ref" THEN w.heap[h.v[1]] ELSE OwnProps(h)

\* typeof url === 'string'
validUrlAny(url) == TRUE
validUrl(url) == url.t = "str"

\* beforeRequest(url, options) === false
gateFalsy(ret) == ~Truthy(ret)
gate(ret) == ret = False

\* One send call: its inputs, what it has called so far, the promise returned
\* by fetch(...).then(...) (pstate, pval) and the promise send returned
\* (settled, result).  A call that has not reached fetch is rejected at once.
CallRecord(c, url, opts, data) ==
  [pc |-> "end", c |-> c, url |-> url, opts |-> opts, data |-> data,
   hf |-> NoResult, br |-> NoResult, hfCalls |-> 0, brCalls |-> 0,
   brUrl |-> Undefined, netCalls |-> 0, req |-> Undefined,
   method |-> Undefined, ctype |-> Undefined, prefix |-> Undefined,
   responseType |-> Undefined, afterResponse |-> Undefined,
   status |-> 0, decCalls |-> 0, pstate |-> "none", pval |-> Undefined,
   hookCalls |-> 0, hookArg |-> Undefined, hook |-> NoResult, awaited |-> NoResult,
   settled |-> "rejected", result |-> Undefined]

IdleCall == [CallRecord(0, Undefined, <<>>, Undefined) EXCEPT !.pc = "idle", !.settled = "none"]

\* The executor of send's promise up to and including the fetch call.  hf and
\* br are what the dynamic-headers function and the beforeRequest hook do when
\* they are called.  An exception thrown in the executor rejects the promise.
send(w, c, url, opts, hf, br) ==
  LET data == Get(opts, "data")
      otherOpts == Delete(opts, "data")
      options == Spread(w.clients[c], otherOpts)
      hdrs == HeadersValue(w, Get(options, "headers"))
      headersFun == Get(hdrs, "__headersFun__")
      realheaders == Delete(hdrs, "__headersFun__")
      hfCalled == Truthy(headersFun)
      newheaders == IF hfCalled /\ hf.kind = "return" /\ Truthy(hf.ret) /\ isObject(hf.ret)
                    THEN Spread(realheaders, hf.ret.v)
                    ELSE realheaders
      ctype == Get(newheaders, "content-type")
      body == _data(data, ctype.v)
      isJson == Contains(ctype.v, CT_JSON)
      isForm == Contains(ctype.v, <<"application/x-www-form-urlencoded">>)
      body1 == IF isJson THEN JSONstringify(body)
               ELSE IF isForm THEN Str(param(body))
               ELSE body
      method == Get(options, "method")
      fold == toUpperCase(method.v) = <<"GET">> /\ Truthy(body)
      sep == IF Contains(url.v, <<"?">>) THEN <<"&">> ELSE <<"?">>
      url1 == IF fold THEN url.v \o sep \o param(body) ELSE url.v
      body2 == IF fold THEN Absent ELSE body1
      hook == Get(options, "beforeRequest")
      brCalled == Truthy(hook) /\ hook.t = "function"
      base == CallRecord(c, url, opts, data)
      afterHf == [base EXCEPT !.hf = IF hfCalled THEN hf ELSE NoResult,
                              !.hfCalls = IF hfCalled THEN 1 ELSE 0]
      afterBr == [afterHf EXCEPT !.method = method, !.ctype = ctype,
                                 !.br = IF brCalled THEN br ELSE NoResult,
                                 !.brCalls = IF brCalled THEN 1 ELSE 0,
                                 !.brUrl = IF brCalled THEN Str(url1) ELSE Undefined]
  IN IF ~validUrl(url) THEN [base EXCEPT !.result = Err("invalid url")]
     ELSE IF hfCalled /\ ~isFunction(headersFun) THEN [afterHf EXCEPT !.result = Err("TypeError")]
     ELSE IF hfCalled /\ hf.kind = "throw" THEN [afterHf EXCEPT !.result = hf.ret]
     ELSE IF ctype.t # "str" THEN [afterHf EXCEPT !.result = Err("TypeError")]
     ELSE IF ~isJson /\ isForm /\ paramThrows(body) THEN [afterHf EXCEPT !.result = Err("TypeError")]
     ELSE IF method.t # "str" THEN [afterHf EXCEPT !.result = Err("TypeError")]
     ELSE IF brCalled /\ br.kind = "throw" THEN [afterBr EXCEPT !.result = br.ret]
     ELSE IF brCalled /\ gate(br.ret)
          THEN [afterBr EXCEPT !.result = Err("request canceled by beforeRequest")]
     ELSE [afterBr EXCEPT
             !.pc = "inflight",
             !.settled = "pending",
             !.netCalls = 1,
             !.req = Val("request",
                         << [url |-> StringOf(Get(options, "prefix")) \o url1,
                             method |-> method,
                             headers |-> newheaders,
                             body |-> body2] >>),
             !.prefix = Get(options, "prefix"),
             !.responseType = Get(options, "responseType"),
             !.afterResponse = Get(options, "afterResponse")]

\* this[method.toLowerCase()](url, data, opts)
verb(w, c, method, url, data, opts, hf, br) ==
  send(w, c, url, Spread(Put(opts, "data", data), <<Entry("method", Str(<<method>>))>>), hf, br)

formHeaders == Map(<<Entry("content-type", Str(CT_FORM))>>)

getform(w, c, url, opts, hf, br) ==
  send(w, c, url,
       Spread(opts, <<Entry("method", Str(<<"GET">>)), Entry("headers", formHeaders)>>), hf, br)

postform(w, c, url, opts, hf, br) ==
  send(w, c, url,
       Spread(opts, <<Entry("method", Str(<<"POST">>)), Entry("headers", formHeaders)>>), hf, br)

(***************************************************************************)
(* send: the reactions to the fetch promise.                               *)
(***************************************************************************)
\* resolve and reject of send's promise: only the first call settles it
Resolve(cl, v) ==
  IF cl.settled = "pending" THEN [cl EXCEPT !.settled = "resolved", !.result = v] ELSE cl
Reject(cl, e) ==
  IF cl.settled = "pending" THEN [cl EXCEPT !.settled = "rejected", !.result = e] ELSE cl

\* the body decoders a Response exposes
Decoders == {<<"json">>, <<"text">>, <<"blob">>, <<"formData">>}
HasDecoder(rt) == rt.t = "str" /\ rt.v \in Decoders

\* the status classifier of ./code: the error for a response
checkStatus(status) == Val("error", <<"HttpStatusError", status>>)

IsOk(status) == status >= 200 /\ status < 300
IsNoContentNever(status) == FALSE
IsNoContent(status) == status = 204

\* the response handler without its reject(err)
onResponseNoReject(cl, status) ==
  LET c1 == [cl EXCEPT !.status = status]
  IN IF IsOk(status)
     THEN IF IsNoContent(status)
          THEN [c1 EXCEPT !.pc = "then", !.pstate = "fulfilled", !.pval = Null]
          ELSE IF HasDecoder(cl.responseType)
          THEN [c1 EXCEPT !.pc = "decoding", !.decCalls = @ + 1]
          ELSE [c1 EXCEPT !.pc = "then", !.pstate = "fulfilled",
                          !.pval = Val("response", <<status>>)]
     ELSE [c1 EXCEPT !.pc = "then", !.pstate = "fulfilled", !.pval = Undefined]

\* fetch(...).then((response) => ...): the handler of the response
onResponse(cl, status) ==
  LET c1 == [cl EXCEPT !.status = status]
  IN IF IsOk(status)
     THEN IF IsNoContent(status)
          THEN [c1 EXCEPT !.pc = "then", !.pstate = "fulfilled", !.pval = Null]
          ELSE IF HasDecoder(cl.responseType)
          THEN [c1 EXCEPT !.pc = "decoding", !.decCalls = @ + 1]
          ELSE [c1 EXCEPT !.pc = "then", !.pstate = "fulfilled",
                          !.pval = Val("response", <<status>>)]
     ELSE [Reject(c1, checkStatus(status)) EXCEPT
             !.pc = "then", !.pstate = "fulfilled", !.pval = Undefined]

\* after && after.then
IsThenable(after) == Truthy(after) /\ after.t = "promise"

\* a rejection handler that drops the error
onRejectedDropped(cl, e) == [cl EXCEPT !.pc = "end"]
\* .catch(e => { reject(e) })
onRejected(cl, e) == [Reject(cl, e) EXCEPT !.pc = "end"]

\* the hook reaction resolving with the response it was given
onFulfilledHookUntransformed(cl, out) ==
  LET c1 == [cl EXCEPT !.hookCalls = @ + 1, !.hookArg = cl.pval, !.hook = out]
  IN IF out.kind = "throw" THEN onRejected(c1, out.ret)
     ELSE [Resolve(c1, cl.pval) EXCEPT !.pc = "end"]

\* promise.then(response => { const after = afterResponse(response); ... })
onFulfilledHook(cl, out) ==
  LET c1 == [cl EXCEPT !.hookCalls = @ + 1, !.hookArg = cl.pval, !.hook = out]
  IN IF out.kind = "throw" THEN onRejected(c1, out.ret)
     ELSE IF IsThenable(out.ret) THEN [c1 EXCEPT !.pc = "awaiting"]
     ELSE [Resolve(c1, out.ret) EXCEPT !.pc = "end"]

\* promise.then(response => resolve(response))
onFulfilled(cl) == [Resolve(cl, cl.pval) EXCEPT !.pc = "end"]

\* after.then(afterResp => { resolve(afterResp) }): no handler for a rejection
onAwaited(cl, out) ==
  LET c1 == [cl EXCEPT !.awaited = out, !.pc = "end"]
  IN IF out.kind = "return" THEN Resolve(c1, out.ret) ELSE c1

(***************************************************************************)
(* The inputs of the model.                                                *)
(***************************************************************************)
Urls == {Val("num", <<"123">>), Str(<<"/", "x">>), Str(<<"/", "x", "?", "y">>)}

DataValues ==
  { Undefined, Null, False, Zero, Str(<<>>), Str(<<"a">>),
    Map(<<>>),
    Map(<<Entry("a", Str(<<"1", " ", "2">>))>>),
    Map(<<Entry("a", Str(<<"1">>)), Entry("b", Str(<<"x", "&", " ", "y">>))>>),
    FormData(<<Entry("a", Str(<<"1">>))>>) }

\* per-call overrides of send
SendOverrides ==
  { <<>>,
    <<Entry("method", Str(<<"GET">>))>>,
    <<Entry("method", Str(<<"get">>))>>,
    <<Entry("headers", Map(<<>>))>>,
    <<Entry("headers", Map(<<Entry("content-type", Str(CT_MULTIPART))>>))>> }

\* the per-verb methods the model calls: get, post and delete
Verbs == {REQUEST_METHODS[i] : i \in {1, 2, 4}}

WithData(opts, d) == IF d = Undefined THEN opts ELSE Put(opts, "data", d)

\* what a registered dynamic-headers function may do
HeadersFunResults ==
  { Returns(Map(<<Entry("x-token", Str(<<"t1">>))>>)),
    Returns(Map(<<Entry("content-type", Str(CT_FORM))>>)),
    Returns(Undefined),
    Throws("HeadersFunError") }

\* what a registered beforeRequest hook may do
BeforeResults ==
  { Returns(False), Returns(True), Returns(Undefined), Returns(Zero), Returns(Str(<<>>)),
    Throws("BeforeRequestError") }

\* what a registered afterResponse hook may do
AfterResults ==
  { Returns(Undefined), Returns(Str(<<"transformed">>)), Returns(Val("promise", <<>>)),
    Throws("AfterResponseError") }

\* how the awaitable an afterResponse hook returned may settle
AwaitResults == { Returns(Str(<<"awaited">>)), Throws("AwaitError") }

StatusCodes == {200, 204, 300, 404}

\* whether a send on client c with these options calls the dynamic-headers
\* function and the beforeRequest hook
HfResults(w, c, opts) ==
  IF Truthy(Get(HeadersValue(w, Get(Spread(w.clients[c], opts), "headers")), "__headersFun__"))
  THEN HeadersFunResults ELSE {NoResult}
BrResults(w, c, opts) ==
  IF isFunction(Get(Spread(w.clients[c], opts), "beforeRequest"))
  THEN BeforeResults ELSE {NoResult}

(***************************************************************************)
(* Actions: the configuration calls.                                       *)
(***************************************************************************)
\* budget is the number of configuration calls the caller still makes; the
\* caller configures a client between its send calls
Apply(op, c, w) ==
  /\ budget > 0
  /\ call.pc = "idle"
  /\ c \in 1..(Len(clients) + 1)
  /\ heap' = w.heap
  /\ clients' = w.clients
  /\ lastOp' = [op |-> op, c |-> c, threw |-> w.threw]
  /\ budget' = budget - 1

Config(c, key, value) ==
  /\ c \in 1..Len(clients)
  /\ Apply("config", c, config(World, c, key, value))
  /\ UNCHANGED <<held, createdBy, call>>

Prefix(c, p) ==
  /\ c \in 1..Len(clients)
  /\ Apply("prefix", c, prefix(World, c, p))
  /\ UNCHANGED <<held, createdBy, call>>

BeforeRequest(c, cb) ==
  /\ c \in 1..Len(clients)
  /\ Apply("beforeRequest", c, beforeRequest(World, c, cb))
  /\ UNCHANGED <<held, createdBy, call>>

AfterResponse(c, cb) ==
  /\ c \in 1..Len(clients)
  /\ Apply("afterResponse", c, afterResponse(World, c, cb))
  /\ UNCHANGED <<held, createdBy, call>>

Headers(c, key, value) ==
  /\ c \in 1..Len(clients)
  /\ Apply("headers", c, headers(World, c, key, value))
  /\ UNCHANGED <<held, createdBy, call>>

ContentType(c, type) ==
  /\ c \in 1..Len(clients)
  /\ Apply("contentType", c, contentType(World, c, type))
  /\ UNCHANGED <<held, createdBy, call>>

(***************************************************************************)
(* Actions: one send call at a time on client 1.                           *)
(***************************************************************************)
\* a send that writes the merged options back to the client
SendStoring(url, opts) ==
  /\ call.pc = "idle"
  /\ \E hf \in HfResults(World, 1, Delete(opts, "data")) :
       \E br \in BrResults(World, 1, Delete(opts, "data")) :
         call' = send(World, 1, url, opts, hf, br)
  /\ clients' = [clients EXCEPT ![1] = Spread(@, Delete(opts, "data"))]
  /\ lastOp' = [op |-> "send", c |-> 1, threw |-> FALSE]
  /\ UNCHANGED <<heap, held, createdBy, budget>>
Send(url, opts) ==
  /\ call.pc = "idle"
  /\ \E hf \in HfResults(World, 1, Delete(opts, "data")) :
       \E br \in BrResults(World, 1, Delete(opts, "data")) :
         call' = send(World, 1, url, opts, hf, br)
  /\ lastOp' = [op |-> "send", c |-> 1, threw |-> FALSE]
  /\ UNCHANGED <<heap, clients, held, createdBy, budget>>

SendVerb(method, url, data, opts) ==
  /\ call.pc = "idle"
  /\ \E hf \in HfResults(World, 1, opts) :
       \E br \in BrResults(World, 1, opts) :
         call' = verb(World, 1, method, url, data, opts, hf, br)
  /\ lastOp' = [op |-> "verb", c |-> 1, threw |-> FALSE]
  /\ UNCHANGED <<heap, clients, held, createdBy, budget>>

GetForm(url, opts) ==
  /\ call.pc = "idle"
  /\ \E br \in BrResults(World, 1, Delete(opts, "data")) :
       call' = getform(World, 1, url, opts, NoResult, br)
  /\ lastOp' = [op |-> "getform", c |-> 1, threw |-> FALSE]
  /\ UNCHANGED <<heap, clients, held, createdBy, budget>>

PostForm(url, opts) ==
  /\ call.pc = "idle"
  /\ \E br \in BrResults(World, 1, Delete(opts, "data")) :
       call' = postform(World, 1, url, opts, NoResult, br)
  /\ lastOp' = [op |-> "postform", c |-> 1, threw |-> FALSE]
  /\ UNCHANGED <<heap, clients, held, createdBy, budget>>

Step(op, cl) ==
  /\ call' = cl
  /\ lastOp' = [op |-> op, c |-> call.c, threw |-> FALSE]
  /\ UNCHANGED <<heap, clients, held, createdBy, budget>>

\* the fetch promise fulfils with a response
Respond(status) ==
  /\ call.pc = "inflight"
  /\ Step("respond", onResponse(call, status))

\* the fetch promise rejects
NetworkFail ==
  /\ call.pc = "inflight"
  /\ Step("networkFail", [call EXCEPT !.pc = "then", !.pstate = "rejected",
                                      !.pval = Err("NetworkError")])

\* a decoder chosen by the responseType the client has stored by now
DecodeStored(ok) ==
  /\ call.pc = "decoding"
  /\ Step("decode",
          IF ok THEN [call EXCEPT !.pc = "then", !.pstate = "fulfilled",
                                  !.pval = Val("decoded", Get(clients[call.c], "responseType").v)]
          ELSE [call EXCEPT !.pc = "then", !.pstate = "rejected", !.pval = Err("DecodeError")])
\* the promise of the body decoder settles
Decode(ok) ==
  /\ call.pc = "decoding"
  /\ Step("decode",
          IF ok THEN [call EXCEPT !.pc = "then", !.pstate = "fulfilled",
                                  !.pval = Val("decoded", call.responseType.v)]
          ELSE [call EXCEPT !.pc = "then", !.pstate = "rejected", !.pval = Err("DecodeError")])

\* the reaction to the settled promise, with an afterResponse hook
ThenHook(out) ==
  /\ call.pc = "then"
  /\ isFunction(call.afterResponse)
  /\ call.pstate = "fulfilled"
  /\ Step("thenHook", onFulfilledHook(call, out))

\* the reaction to the settled promise, without a hook
Then ==
  /\ call.pc = "then"
  /\ ~isFunction(call.afterResponse)
  /\ call.pstate = "fulfilled"
  /\ Step("then", onFulfilled(call))

Catch ==
  /\ call.pc = "then"
  /\ call.pstate = "rejected"
  /\ Step("catch", onRejected(call, call.pval))

\* the awaitable returned by the hook settles
Awaited(out) ==
  /\ call.pc = "awaiting"
  /\ Step("awaited", onAwaited(call, out))

\* the caller is done with the call; the client can send again
Finish ==
  /\ call.pc = "end"
  /\ Step("finish", IdleCall)

(***************************************************************************)
(* Spec: a client made by new Request(), configured by at most MaxSetup    *)
(* setter calls between its send calls, sending one request after another. *)
(***************************************************************************)
MaxSetup == 1

W0 == [heap |-> <<>>, clients |-> <<>>]

Init ==
  /\ heap = constructor(W0, <<>>).heap
  /\ clients = constructor(W0, <<>>).clients
  /\ held = {}
  /\ createdBy = <<0>>
  /\ lastOp = [op |-> "new", c |-> 1, threw |-> FALSE]
  /\ budget = MaxSetup
  /\ call = IdleCall

Next ==
  \/ Prefix(1, Str(<<"/", "p">>))
  \/ Config(1, Str(<<"method">>), Str(<<"GET">>))
  \/ \E rt \in {<<"text">>, <<"blob">>, <<"formData">>, <<"raw">>} :
       Config(1, Str(<<"responseType">>), Str(rt))
  \/ BeforeRequest(1, Fn("before"))
  \/ AfterResponse(1, Fn("after"))
  \/ Headers(1, Fn("dynamic"), Undefined)
  \/ \E t \in {Str(<<"form">>), Str(<<"multipart">>), Str(CT_TEXT)} : ContentType(1, t)
  \/ \E url \in Urls, d \in DataValues, ov \in SendOverrides : Send(url, WithData(ov, d))
  \/ \E m \in Verbs, url \in Urls, d \in DataValues : SendVerb(m, url, d, <<>>)
  \/ \E url \in Urls, d \in DataValues : GetForm(url, WithData(<<>>, d))
  \/ \E url \in Urls, d \in DataValues : PostForm(url, WithData(<<>>, d))
  \/ \E status \in StatusCodes : Respond(status)
  \/ NetworkFail
  \/ \E ok \in BOOLEAN : Decode(ok)
  \/ \E out \in AfterResults : ThenHook(out)
  \/ Then
  \/ Catch
  \/ \E out \in AwaitResults : Awaited(out)
  \/ Finish

Spec == Init /\ [][Next]_vars

(***************************************************************************)
(* Properties of the send pipeline, checked under Spec.                    *)
(***************************************************************************)
Canceled == Err("request canceled by beforeRequest")
Request == call.req.v[1]
GotResponse == call.status # 0
HasAfterHook == isFunction(call.afterResponse)

C1_WitnessCanceled ==
  /\ call.br = Returns(False)
  /\ call.settled = "rejected"
  /\ call.netCalls = 0

\* C2: a send call whose response has a status outside 200-299 is rejected
\* with the status error of that response, with or without an afterResponse
\* hook, from the response on: it never resolves.
C2_StatusErrorRejects ==
  (GotResponse /\ ~IsOk(call.status)) =>
    call.settled = "rejected" /\ call.result = checkStatus(call.status)

C2_Witness ==
  /\ call.status = 404
  /\ HasAfterHook
  /\ call.pc = "end"
  /\ call.settled = "rejected"

\* C3: the afterResponse hook is invoked only in a send call whose response
\* status is 200-299: never after a status outside 200-299, never after the
\* network call rejected.
C3_HookOnlyAfterSuccess ==
  call.hookCalls > 0 => (GotResponse /\ IsOk(call.status))

\* C4: when the afterResponse hook throws, or returns an awaitable that
\* rejects, the send call ends rejected with that same error; it neither
\* resolves nor stays pending.  Stated for the calls whose response status is
\* 200-299, the calls the hook is meant for.
C4_HookFailureRejects ==
  (call.pc = "end" /\ GotResponse /\ IsOk(call.status)) =>
    /\ call.hook.kind = "throw" =>
         (call.settled = "rejected" /\ call.result = call.hook.ret)
    /\ call.awaited.kind = "throw" =>
         (call.settled = "rejected" /\ call.result = call.awaited.ret)

\* C5: send with a url that is not a string is rejected with the invalid-url
\* error; it makes no network call and calls neither the dynamic-headers
\* function nor the beforeRequest and afterResponse hooks.
C5_InvalidUrl ==
  (call.pc # "idle" /\ call.url.t # "str") =>
    /\ call.settled = "rejected"
    /\ call.result = Err("invalid url")
    /\ call.netCalls = 0
    /\ call.hfCalls = 0
    /\ call.brCalls = 0
    /\ call.hookCalls = 0

C5_Witness ==
  /\ call.pc = "end"
  /\ call.url.t = "num"
  /\ isFunction(Get(clients[1], "beforeRequest"))
  /\ call.result = Err("invalid url")

\* the form encoding of a mapping: key=value pairs joined by '&', a space
\* rendered as '+', every other reserved character percent-encoded
FormEncodeChar(ch) == IF ch = " " THEN <<"+">> ELSE EncodeChar(ch)

RECURSIVE FormEncodeString(_)
FormEncodeString(str) ==
  IF str = <<>> THEN <<>> ELSE FormEncodeChar(Head(str)) \o FormEncodeString(Tail(str))

RECURSIVE FormEncode(_)
FormEncode(es) ==
  IF es = <<>> THEN <<>>
  ELSE <<KeyOf(Head(es)), "=">> \o FormEncodeString(ValueOf(Head(es)).v)
       \o (IF Len(es) > 1 THEN <<"&">> \o FormEncode(Tail(es)) ELSE <<>>)

\* C7: a send call whose method is GET (in any case) and whose data is a
\* non-empty mapping makes its network call without a body, to the url
\* prefix + url + sep + q, q the form encoding of data, sep '&' when url
\* holds a '?' and '?' otherwise.
C7_GetFoldsData ==
  (call.netCalls = 1 /\ toUpperCase(call.method.v) = <<"GET">>
     /\ call.data.t = "map" /\ call.data.v # <<>>) =>
    /\ Request.body = Absent
    /\ Request.url = call.prefix.v \o call.url.v
                       \o (IF \E i \in 1..Len(call.url.v) : call.url.v[i] = "?"
                           THEN <<"&">> ELSE <<"?">>)
                       \o FormEncode(call.data.v)

\* C8: with an afterResponse hook and a response status in 200-299, send
\* resolves with what the hook returned; when that is an awaitable, send
\* resolves only once it has fulfilled, with the fulfilled value; never with
\* the awaitable, never with the response the hook was given.
C8_ResolvesWithHookValue ==
  (HasAfterHook /\ GotResponse /\ IsOk(call.status)) =>
    /\ call.settled = "resolved" =>
         /\ call.hook.kind = "return"
         /\ call.result.t \notin {"promise", "decoded", "response"}
         /\ IF call.hook.ret.t = "promise"
            THEN call.awaited.kind = "return" /\ call.result = call.awaited.ret
            ELSE call.result = call.hook.ret
    /\ (call.pc = "end" /\ call.hook.kind = "return" /\ call.hook.ret.t # "promise") =>
         call.settled = "resolved"
    /\ (call.pc = "end" /\ call.awaited.kind = "return") => call.settled = "resolved"

C8_Witness ==
  /\ HasAfterHook
  /\ call.status = 200
  /\ call.hook.kind = "return"
  /\ call.hook.ret.t = "promise"
  /\ call.settled = "resolved"
  /\ call.result = Str(<<"awaited">>)

\* C9: for every responseType, a send call without an afterResponse hook whose
\* response has status 204 resolves with null, and no body decoder of the
\* response is called.
C9_NoContentResolvesNull ==
  (call.status = 204 /\ ~HasAfterHook) =>
    /\ call.decCalls = 0
    /\ call.settled # "rejected"
    /\ call.pc = "end" => (call.settled = "resolved" /\ call.result = Null)

C9_Witness ==
  /\ call.status = 204
  /\ call.responseType = Str(<<"blob">>)
  /\ call.pc = "end"
  /\ call.settled = "resolved"
  /\ call.result = Null

(***************************************************************************)
(* SpecConfig: a caller that writes header mappings, makes clients with    *)
(* new Request(opts) and create(opts), and calls their setters.            *)
(***************************************************************************)
V1 == Str(<<"v1">>)
V2 == Str(<<"v2">>)

\* the header mappings the caller writes
HeaderLiterals ==
  { <<Entry("Accept", V1)>>,
    <<Entry("Accept", V1), Entry("accept", V2)>>,
    <<Entry("accept", V1), Entry("Accept", V2)>>,
    <<Entry("Accept", V1), Entry("ACCEPT", V2)>>,
    <<Entry("Content-Type", Str(CT_FORM)), Entry("x-token", V1)>> }

\* the options the caller constructs a client with: none, a prefix, or one
\* of the header mappings it holds
CtorOpts ==
  {<<>>, <<Entry("prefix", Str(<<"/", "p">>))>>}
    \cup {<<Entry("headers", Ref(id))>> : id \in 1..MaxObjs}

\* the mapping an option refers to is one the caller holds
Holds(opts) == HasKey(opts, "headers") => HeadersId(opts) \in held

InitConfig ==
  /\ heap = <<>>
  /\ clients = <<>>
  /\ held = {}
  /\ createdBy = <<>>
  /\ lastOp = [op |-> "none", c |-> 0, threw |-> FALSE]
  /\ budget = MaxOps
  /\ call = IdleCall

\* the caller writes an object literal of headers and keeps it
Literal(m) ==
  /\ budget > 0
  /\ Len(heap) < MaxObjs
  /\ heap' = Append(heap, m)
  /\ held' = held \cup {Len(heap) + 1}
  /\ lastOp' = [op |-> "literal", c |-> 0, threw |-> FALSE]
  /\ budget' = budget - 1
  /\ UNCHANGED <<clients, createdBy, call>>

\* new Request(opts)
New(opts) ==
  /\ Len(clients) < MaxClients
  /\ Holds(opts)
  /\ HasKey(opts, "headers") \/ Len(heap) < MaxObjs
  /\ Apply("new", Len(clients) + 1, constructor(World, opts))
  /\ createdBy' = Append(createdBy, 0)
  /\ UNCHANGED <<held, call>>

\* a.create(opts)
Create(a, opts) ==
  /\ a \in 1..Len(clients)
  /\ Len(clients) < MaxClients
  /\ Holds(opts)
  /\ HasKey(opts, "headers") \/ Len(heap) < MaxObjs
  /\ Apply("create", Len(clients) + 1, create(World, opts))
  /\ createdBy' = Append(createdBy, a)
  /\ UNCHANGED <<held, call>>

ConfigHeaders(c, id) ==
  /\ id \in held
  /\ Config(c, Str(<<"headers">>), Ref(id))

ConfigMap(c, id) ==
  /\ id \in held
  /\ Config(c, Map(<<Entry("headers", Ref(id))>>), Undefined)

Setter(c) ==
  \/ \E id \in 1..MaxObjs : ConfigHeaders(c, id)
  \/ \E id \in 1..MaxObjs : ConfigMap(c, id)
  \/ Config(c, Str(<<"method">>), Str(<<"GET">>))
  \/ Prefix(c, Str(<<"/", "q">>))
  \/ BeforeRequest(c, Fn("before"))
  \/ AfterResponse(c, Fn("after"))
  \/ \E m \in HeaderLiterals : Headers(c, Map(m), Undefined)
  \/ Headers(c, Fn("dynamic"), Undefined)
  \/ Headers(c, Str(<<"Accept">>), V2)
  \/ \E t \in {Str(<<"json">>), Str(<<"form">>), Str(<<"urlencoded">>),
               Str(<<"multipart">>), Str(CT_TEXT)} : ContentType(c, t)

NextConfig ==
  \/ \E m \in HeaderLiterals : Literal(m)
  \/ \E opts \in CtorOpts : New(opts)
  \/ \E a \in 1..MaxClients, opts \in CtorOpts : Create(a, opts)
  \/ \E c \in 1..MaxClients : Setter(c)

SpecConfig == InitConfig /\ [][NextConfig]_vars

(***************************************************************************)
(* Properties of the configuration, checked under SpecConfig.              *)
(***************************************************************************)
\* what client c has stored: its options and the header mapping they refer to
Stored(h, cs, c) == [options |-> cs[c], headers |-> h[HeadersId(cs[c])]]

IsSetter(op) ==
  op \in {"config", "prefix", "beforeRequest", "afterResponse", "headers", "contentType"}

\* C6: after any sequence of constructions and setter calls, every key of a
\* client's stored header mapping other than the reserved dynamic-headers key
\* is lower-case.
C6_HeaderKeysLowerCase ==
  \A c \in 1..Len(clients) :
    \A i \in 1..Len(HeadersOf(World, c)) :
      LET k == KeyOf(HeadersOf(World, c)[i])
      IN k # "__headersFun__" => k = toLowerCase(k)

\* C10: after b = a.create(overrides), no setter call on one of a and b
\* changes what the other has stored, its header mapping included.
C10_CreateIndependent ==
  [][ IsSetter(lastOp'.op) =>
        \A y \in 1..Len(clients) :
          (y # lastOp'.c /\ (createdBy[y] = lastOp'.c \/ createdBy[lastOp'.c] = y)) =>
            Stored(heap', clients', y) = Stored(heap, clients, y) ]_vars

(***************************************************************************)
(* SpecSetters: a caller that calls the setters of one client with valid   *)
(* and with invalid arguments.                                             *)
(***************************************************************************)
MaxCalls == 2

\* the arguments the claim calls invalid
InvalidArgs == {Undefined, Null, Val("num", <<"123">>), Str(<<>>)}

SetterArgs == InvalidArgs \cup {Str(<<"x">>), Fn("f"), Map(<<Entry("X-Token", V1)>>)}

InitSetters ==
  /\ heap = constructor(W0, <<>>).heap
  /\ clients = constructor(W0, <<>>).clients
  /\ held = {}
  /\ createdBy = <<0>>
  /\ lastOp = [op |-> "new", c |-> 1, threw |-> FALSE, arg |-> Undefined]
  /\ budget = MaxCalls
  /\ call = IdleCall

\* client 1's setter op called with x as its first argument; a call that
\* throws has changed what w says it changed before the throw
CallSetter(op, x, w) ==
  /\ budget > 0
  /\ heap' = w.heap
  /\ clients' = w.clients
  /\ lastOp' = [op |-> op, c |-> 1, threw |-> w.threw, arg |-> x]
  /\ budget' = budget - 1
  /\ UNCHANGED <<held, createdBy, call>>

NextSetters ==
  \/ \E x \in SetterArgs : CallSetter("config", x, config(World, 1, x, Undefined))
  \/ \E x \in SetterArgs : CallSetter("prefix", x, prefix(World, 1, x))
  \/ \E x \in SetterArgs : CallSetter("beforeRequest", x, beforeRequest(World, 1, x))
  \/ \E x \in SetterArgs : CallSetter("afterResponse", x, afterResponse(World, 1, x))
  \/ \E x \in SetterArgs : CallSetter("headers", x, headers(World, 1, x, Undefined))
  \/ \E x \in SetterArgs : CallSetter("contentType", x, contentType(World, 1, x))

SpecSetters == InitSetters /\ [][NextSetters]_vars

\* C11: every setter (config, prefix, beforeRequest, afterResponse, headers,
\* contentType) called with an invalid argument (undefined, null, a number,
\* an empty string, a non-callable for a hook) returns without throwing and
\* leaves the stored configuration as it was.
C11_SettersIgnoreInvalid ==
  [][ (IsSetter(lastOp'.op) /\ lastOp'.arg \in InvalidArgs) =>
        /\ ~lastOp'.threw
        /\ Stored(heap', clients', 1) = Stored(heap, clients, 1) ]_vars

(***************************************************************************)
(* Further properties of the send pipeline, checked under Spec.  In Spec   *)
(* the setters are called between the send calls, so during a call the     *)
(* stored configuration is the one the call was invoked with.              *)
(***************************************************************************)
HeadersFun == Get(HeadersOf(World, 1), "__headersFun__")
StaticHeaders == Delete(HeadersOf(World, 1), "__headersFun__")

\* C12: every call (send, per-verb, getform, postform, with or without
\* overrides) that reaches the network on a client with a registered
\* dynamic-headers function has invoked the function once, and the headers of
\* its network call are the static headers overlaid with the mapping the
\* function returned, or the static headers when it returned no mapping.
C12_DynamicHeaders ==
  (call.netCalls = 1 /\ isFunction(HeadersFun)) =>
    /\ call.hfCalls = 1
    /\ Request.headers = IF call.hf.kind = "return" /\ isObject(call.hf.ret)
                         THEN Spread(StaticHeaders, call.hf.ret.v)
                         ELSE StaticHeaders

NetworkError == Err("NetworkError")
NetworkFailed == call.pstate = "rejected" /\ call.pval = NetworkError

\* C13: when the network call of a send rejects with e, the send call is
\* rejected with e: the afterResponse hook is not invoked, the call never
\* resolves and there is no second network call.
C13_NetworkFailureRejects ==
  NetworkFailed =>
    /\ call.netCalls = 1
    /\ call.hookCalls = 0
    /\ call.settled # "resolved"
    /\ call.pc = "end" => (call.settled = "rejected" /\ call.result = NetworkError)

C13_Witness ==
  /\ NetworkFailed
  /\ HasAfterHook
  /\ call.pc = "end"
  /\ call.settled = "rejected"
  /\ call.result = NetworkError

\* C15: a send call makes at most one network call, and exactly one when its
\* url is a string and no hook stopped it (the beforeRequest hook is absent
\* or returned a value other than false), for every data value, content type
\* and per-call override.
C15_OneNetworkCall ==
  /\ call.netCalls <= 1
  /\ ( /\ call.pc # "idle"
       /\ call.url.t = "str"
       /\ call.hf.kind # "throw"
       /\ call.br.kind # "throw"
       /\ call.br # Returns(False) ) => call.netCalls = 1

\* C16: no network call whose method is GET, in any case, carries a body.
C16_GetWithoutBody ==
  (call.netCalls = 1 /\ toUpperCase(call.method.v) = <<"GET">>) =>
    Request.body \in {Absent, Undefined}

IsCallStep(op) ==
  op \in {"send", "verb", "getform", "postform", "respond", "networkFail", "decode",
          "thenHook", "then", "catch", "awaited", "finish"}

\* C17: no step of a send, per-verb, getform or postform call, from its
\* invocation to its end, changes the stored configuration of the client:
\* its options and its header mapping.
C17_SendKeepsConfig ==
  [][ IsCallStep(lastOp'.op) => (heap' = heap /\ clients' = clients) ]_vars

C17_Witness ==
  /\ call.pc = "end"
  /\ call.settled = "resolved"
  /\ HasKey(call.opts, "data")
  /\ call.method = Str(<<"GET">>)
  /\ Get(clients[1], "method") = Str(<<"POST">>)

(***************************************************************************)
(* SpecLive: Spec with the network call, the decoder's promise and the     *)
(* hook's awaitable settling eventually, and the reactions to a settled    *)
(* promise being run by the job queue.                                     *)
(***************************************************************************)
Progress ==
  \/ \E status \in StatusCodes : Respond(status)
  \/ NetworkFail
  \/ \E ok \in BOOLEAN : Decode(ok)
  \/ \E out \in AfterResults : ThenHook(out)
  \/ Then
  \/ Catch
  \/ \E out \in AwaitResults : Awaited(out)

SpecLive == Spec /\ WF_vars(Progress)

Pending == call.settled = "pending"
Terminal == call.settled \in {"resolved", "rejected"}

\* C14: every send call eventually reaches a terminal state, resolved or
\* rejected, on every path, and once there it keeps that state and its value
\* for the rest of the call.
C14_SettlesOnce ==
  /\ [][ (Terminal /\ call'.pc # "idle") =>
           (call'.settled = call.settled /\ call'.result = call.result) ]_vars
  /\ (Pending ~> Terminal)

(***************************************************************************)
(* Further properties of the configuration, checked under SpecConfig.      *)
(***************************************************************************)
IsConstruction(op) == op \in {"new", "create"}

\* the header mapping of the client the step has constructed
NewHeadersId == HeadersId(clients'[Len(clients')])

\* C18: a construction leaves every mapping the caller holds as it was and
\* gives the new client a header mapping of its own, not one the caller
\* holds or another client has stored; and a setter call on one client
\* changes what no other client has stored.
C18_ConfigOwned ==
  [][ /\ IsConstruction(lastOp'.op) =>
           /\ \A id \in held : heap'[id] = heap[id]
           /\ NewHeadersId \notin held
           /\ \A y \in 1..Len(clients) : HeadersId(clients[y]) # NewHeadersId
      /\ IsSetter(lastOp'.op) =>
           \A y \in 1..Len(clients) :
             y # lastOp'.c => Stored(heap', clients', y) = Stored(heap, clients, y) ]_vars

\* the keys of m that are equal to k after lower-casing
Spellings(m, k) == {i \in 1..Len(m) : toLowerCase(KeyOf(m[i])) = k}

Max(S) == CHOOSE i \in S : \A j \in S : j <= i

\* C19: when the header mapping given to a construction holds several keys
\* that are equal after lower-casing, the stored mapping holds exactly one
\* key for them, the lower-case one, with the value of the key declared last.
C19_LastDuplicateWins ==
  [][ (IsConstruction(lastOp'.op) /\ NewHeadersId \in 1..Len(heap)) =>
        LET given == heap[NewHeadersId]
            stored == heap'[NewHeadersId]
        IN \A i \in 1..Len(given) :
             LET k == toLowerCase(KeyOf(given[i]))
             IN Cardinality(Spellings(given, k)) > 1 =>
                  /\ Cardinality(Spellings(stored, k)) = 1
                  /\ HasKey(stored, k)
                  /\ Get(stored, k) = ValueOf(given[Max(Spellings(given, k))]) ]_vars

(***************************************************************************)
(* SpecFlight: Spec with a caller that also calls the setters of the       *)
(* client while a call is under way.                                       *)
(***************************************************************************)
UnderWay == call.pc \in {"inflight", "decoding", "then", "awaiting"}

\* a setter of client 1 called while its send call is under way
Reconfigure(op, w) ==
  /\ budget > 0
  /\ UnderWay
  /\ heap' = w.heap
  /\ clients' = w.clients
  /\ lastOp' = [op |-> op, c |-> 1, threw |-> w.threw]
  /\ budget' = budget - 1
  /\ UNCHANGED <<held, createdBy, call>>

NextFlight ==
  \/ Next
  \/ Reconfigure("prefix", prefix(World, 1, Str(<<"/", "q">>)))
  \/ Reconfigure("config", config(World, 1, Str(<<"method">>), Str(<<"GET">>)))
  \/ \E rt \in {<<"text">>, <<"raw">>} :
       Reconfigure("config", config(World, 1, Str(<<"responseType">>), Str(rt)))
  \/ Reconfigure("beforeRequest", beforeRequest(World, 1, Fn("before")))
  \/ Reconfigure("afterResponse", afterResponse(World, 1, Fn("after")))
  \/ Reconfigure("headers", headers(World, 1, Fn("dynamic"), Undefined))
  \/ Reconfigure("headers", headers(World, 1, Str(<<"Accept">>), V2))
  \/ Reconfigure("contentType", contentType(World, 1, Str(<<"form">>)))

SpecFlight == Init /\ [][NextFlight]_vars

\* the options a call was invoked with: the stored ones under its overrides
OptionsAtSend(cl) == Spread(clients[cl.c], Delete(cl.opts, "data"))

\* C20: a call that reaches the network takes its method, prefix,
\* responseType and afterResponse hook from the configuration as it is when
\* send is invoked; from then on no step, a setter call on the same client
\* included, changes the issued request, and the decoder and the hook applied
\* to the response are those taken at the invocation.
C20_CallUsesConfigAtSend ==
  [][ /\ (call.pc = "idle" /\ call'.netCalls = 1) =>
           /\ call'.method = Get(OptionsAtSend(call'), "method")
           /\ call'.prefix = Get(OptionsAtSend(call'), "prefix")
           /\ call'.responseType = Get(OptionsAtSend(call'), "responseType")
           /\ call'.afterResponse = Get(OptionsAtSend(call'), "afterResponse")
           /\ Request'.method = call'.method
      /\ (call.pc # "idle" /\ call'.pc # "idle") =>
           /\ call'.req = call.req
           /\ call'.responseType = call.responseType
           /\ call'.afterResponse = call.afterResponse
           /\ call'.decCalls > call.decCalls => HasDecoder(call.responseType)
           /\ call'.pval.t = "decoded" => call'.pval.v = call.responseType.v
           /\ call'.hookCalls > call.hookCalls => isFunction(call.afterResponse)
           /\ lastOp'.op = "then" => ~isFunction(call.afterResponse) ]_vars

\* the json decoder's result arrives after config('responseType', 'text')
C20_Witness ==
  /\ lastOp.op = "decode"
  /\ call.pstate = "fulfilled"
  /\ call.pval = Val("decoded", <<"json">>)
  /\ Get(clients[1], "responseType") = Str(<<"text">>)

====
